---- MODULE Spec2Model ----
(***************************************************************************)
(* Model of the vue-ip-mac-mask directive: the three mask handlers         *)
(* (ipv4, ipv6, mac), the string utilities they share, and the input       *)
(* field the directive's event handlers rewrite.                           *)
(*                                                                         *)
(* A JavaScript string is modelled as a sequence of one-character strings; *)
(* 0-based JavaScript offsets are kept as they are in the source and       *)
(* shifted by one where a TLA+ sequence is indexed.                        *)
(***************************************************************************)
EXTENDS Integers, Sequences, FiniteSets, TLC

VARIABLES family, value, selStart, selEnd, lastEvent, runs, typed, fn, raw, idx, called, out

vars == <<family, value, selStart, selEnd, lastEvent, runs, typed, fn, raw, idx, called, out>>

fieldVars == <<value, selStart, selEnd, lastEvent, runs, typed>>

fnVars == <<fn, raw, idx, called, out>>

(***************************************************************************)
(* Characters                                                              *)
(***************************************************************************)
DigitSeq == <<"0", "1", "2", "3", "4", "5", "6", "7", "8", "9">>

Digits == {DigitSeq[i] : i \in 1..Len(DigitSeq)}

HexLetters == {"a", "b", "c", "d", "e", "f", "A", "B", "C", "D", "E", "F"}

HexChars == Digits \cup HexLetters

Families == {"ipv4", "ipv6", "mac"}

\* /\d/.test(ch) for a one-character ch
isDigit(ch) == ch \in Digits

\* /[0-9a-fA-F]/.test(ch) for a one-character ch
isHexChar(ch) == ch \in HexChars

DigitVal(ch) == (CHOOSE i \in 1..Len(DigitSeq) : DigitSeq[i] = ch) - 1

(***************************************************************************)
(* String primitives of the JavaScript runtime the source calls            *)
(***************************************************************************)
Min(a, b) == IF a < b THEN a ELSE b

Max(a, b) == IF a > b THEN a ELSE b

\* s.slice(from, to) for 0 <= from, 0 <= to; an empty string when to <= from
Slice(s, from, to) ==
  LET a == Min(from, Len(s))
      b == Min(to, Len(s))
  IN  IF b <= a THEN <<>> ELSE SubSeq(s, a + 1, b)

\* s.slice(from)
SliceFrom(s, from) == Slice(s, from, Len(s))

\* s.indexOf(ch, from): the least offset >= from holding ch, or -1
IndexOf(s, ch, from) ==
  LET hits == {k \in Max(from, 0)..(Len(s) - 1) : s[k + 1] = ch}
  IN  IF hits = {} THEN -1 ELSE CHOOSE k \in hits : \A j \in hits : k <= j

\* s.lastIndexOf(ch, from): the greatest offset <= from holding ch, or -1.
\* ECMAScript clamps the position into 0..(length - 1) before searching, so
\* a negative position still looks at offset 0.
LastIndexOf(s, ch, from) ==
  LET pos  == Min(Max(from, 0), Len(s) - 1)
      hits == {k \in 0..pos : s[k + 1] = ch}
  IN  IF hits = {} THEN -1 ELSE CHOOSE k \in hits : \A j \in hits : k >= j

\* s.replace(/[^...]/g, '') : keep the characters of the class
Keep(s, class) == SelectSeq(s, LAMBDA c : c \in class)

RECURSIVE Split(_, _)
\* s.split(d): always at least one segment, empty segments kept
Split(s, d) ==
  LET k == IndexOf(s, d, 0)
  IN  IF k = -1 THEN <<s>>
      ELSE <<Slice(s, 0, k)>> \o Split(SliceFrom(s, k + 1), d)

RECURSIVE Join(_, _)
\* segs.join(d)
Join(segs, d) ==
  IF Len(segs) = 0 THEN <<>>
  ELSE IF Len(segs) = 1 THEN segs[1]
  ELSE segs[1] \o <<d>> \o Join(Tail(segs), d)

StartsWith(s, ch) == Len(s) > 0 /\ s[1] = ch

EndsWith(s, ch) == Len(s) > 0 /\ s[Len(s)] = ch

NaN == -1

RECURSIVE DecimalValue(_)
DecimalValue(s) ==
  IF Len(s) = 0 THEN 0
  ELSE 10 * DecimalValue(SubSeq(s, 1, Len(s) - 1)) + DigitVal(s[Len(s)])

\* the length of the longest prefix of s made of decimal digits
DigitPrefixLen(s) ==
  LET stops == {k \in 0..Len(s) : k = Len(s) \/ s[k + 1] \notin Digits}
  IN  CHOOSE k \in stops : \A j \in stops : k <= j

\* parseInt(s, 10) on a string without sign or white space: the value of the
\* leading digits, NaN when there is none
ParseInt(s) ==
  LET n == DigitPrefixLen(s)
  IN  IF n = 0 THEN NaN ELSE DecimalValue(SubSeq(s, 1, n))

(***************************************************************************)
(* Regular expressions, as the source's validate methods use them          *)
(***************************************************************************)
Cls(S) == [t |-> "cls", s |-> S]

Cat(rs) == [t |-> "cat", rs |-> rs]

Alt(rs) == [t |-> "alt", rs |-> rs]

Rep(r, lo, hi) == [t |-> "rep", r |-> r, lo |-> lo, hi |-> hi]

Opt(r) == Rep(r, 0, 1)

RECURSIVE Ends(_, _, _), CatEnds(_, _, _, _), RepEnds(_, _, _, _, _)
\* the offsets at which a match of re that starts at an offset of P can end
Ends(re, s, P) ==
  CASE re.t = "cls" -> {p + 1 : p \in {q \in P : q < Len(s) /\ s[q + 1] \in re.s}}
    [] re.t = "cat" -> CatEnds(re.rs, 1, s, P)
    [] re.t = "alt" -> UNION {Ends(re.rs[i], s, P) : i \in 1..Len(re.rs)}
    [] re.t = "rep" -> RepEnds(re.r, re.lo, re.hi, s, P)

CatEnds(rs, k, s, P) ==
  IF k > Len(rs) \/ P = {} THEN P
  ELSE CatEnds(rs, k + 1, s, Ends(rs[k], s, P))

RepEnds(r, lo, hi, s, P) ==
  IF hi = 0 \/ P = {} THEN P
  ELSE (IF lo = 0 THEN P ELSE {})
       \cup RepEnds(r, Max(lo - 1, 0), hi - 1, s, Ends(r, s, P))

\* /^re$/.test(s)
TestAnchored(re, s) == Len(s) \in Ends(re, s, {0})

(***************************************************************************)
(* Shared utilities                                                        *)
(***************************************************************************)
simulateInsert(v, char, cursorPos, selectionEnd) ==
  Slice(v, 0, cursorPos) \o <<char>> \o SliceFrom(v, selectionEnd)

getSegmentBounds(v, index, delimiter) ==
  LET start == LastIndexOf(v, delimiter, index - 1) + 1
      e     == IndexOf(v, delimiter, index)
  IN  [start |-> start, end |-> IF e = -1 THEN Len(v) ELSE e]

getSegmentTextAt(v, index, delimiter) ==
  LET b == getSegmentBounds(v, index, delimiter)
  IN  Slice(v, b.start, b.end)

countChar(v, ch) == Cardinality({k \in 1..Len(v) : v[k] = ch})

computeNewCursorPosition(oldValue, newValue, oldCursor) ==
  IF Len(newValue) < Len(oldValue) THEN Min(oldCursor, Len(newValue))
  ELSE IF Len(newValue) > Len(oldValue)
       THEN oldCursor + (Len(newValue) - Len(oldValue))
       ELSE oldCursor

(***************************************************************************)
(* maskHandlers.ipv4                                                       *)
(***************************************************************************)
Dot == "."

Colon == ":"

\* ipv4_fixSegment replacing every three-digit number above 199
ipv4_fixSegment_clampAbove199(seg) ==
  LET segment == IF Len(seg) > 3 THEN Slice(seg, 0, 3) ELSE seg
      num     == ParseInt(segment)
  IN  IF num # NaN /\ num > 199 THEN <<"2", "5", "5">> ELSE segment

\* ipv4_fixSegment without the replacement of a number above 255
ipv4_fixSegment_noClamp(seg) ==
  IF Len(seg) > 3 THEN Slice(seg, 0, 3) ELSE seg

\* the body of the for loop up to validSegments.push(segment)
ipv4_fixSegment(seg) ==
  LET segment == IF Len(seg) > 3 THEN Slice(seg, 0, 3) ELSE seg
      num     == ParseInt(segment)
  IN  IF num # NaN /\ num > 255 THEN <<"2", "5", "5">> ELSE segment

\* ipv4_autoAdvance without the test that i is the last segment present
ipv4_autoAdvance_everySegment(segments, i, segment) ==
  /\ i < 3
  /\ Len(segment) > 0
  /\ \/ Len(segment) = 3
     \/ Len(segment) = 2 /\ ParseInt(segment \o <<"0">>) > 255

\* the auto-advance test that follows the push, for loop index i
ipv4_autoAdvance(segments, i, segment) ==
  /\ i < 3
  /\ i = Len(segments) - 1
  /\ Len(segment) > 0
  /\ \/ Len(segment) = 3
     \/ Len(segment) = 2 /\ ParseInt(segment \o <<"0">>) > 255

RECURSIVE ipv4_formatLoop(_, _, _)
ipv4_formatLoop(segments, i, validSegments) ==
  IF i >= Min(Len(segments), 4) THEN validSegments
  ELSE LET segment == ipv4_fixSegment(segments[i + 1])
           pushed  == Append(validSegments, segment)
       IN  ipv4_formatLoop(segments, i + 1,
             IF ipv4_autoAdvance(segments, i, segment)
             THEN Append(pushed, <<>>) ELSE pushed)

ipv4_format(v) ==
  LET cleaned  == Keep(v, Digits \cup {Dot})
      segments == Split(cleaned, Dot)
  IN  Join(ipv4_formatLoop(segments, 0, <<>>), Dot)

\* (25[0-5]|2[0-4]\d|[01]?\d\d?)
ipv4_octetRegex ==
  Alt(<< Cat(<<Cls({"2"}), Cls({"5"}), Cls({"0", "1", "2", "3", "4", "5"})>>),
         Cat(<<Cls({"2"}), Cls({"0", "1", "2", "3", "4"}), Cls(Digits)>>),
         Cat(<<Opt(Cls({"0", "1"})), Cls(Digits), Opt(Cls(Digits))>>) >>)

ipv4Regex ==
  Cat(<< ipv4_octetRegex, Cls({Dot}), ipv4_octetRegex, Cls({Dot}),
         ipv4_octetRegex, Cls({Dot}), ipv4_octetRegex >>)

ipv4_validate(v) == TestAnchored(ipv4Regex, v)

\* ipv4_isValidChar without the test of the segment's number against 255
ipv4_isValidChar_noRangeTest(char, currentValue, cursorPos, selectionEnd) ==
  IF char \notin Digits \cup {Dot} THEN FALSE
  ELSE LET left  == Slice(currentValue, 0, cursorPos)
           right == SliceFrom(currentValue, cursorPos)
           after == simulateInsert(currentValue, char, cursorPos, selectionEnd)
       IN  IF char = Dot
           THEN LET b          == getSegmentBounds(currentValue, cursorPos, Dot)
                    currentSeg == Slice(currentValue, b.start, b.end)
                IN  /\ ~(countChar(after, Dot) > 3)
                    /\ ~(Len(left) = 0 \/ EndsWith(left, Dot))
                    /\ ~(Len(currentSeg) = 0)
                    /\ ~StartsWith(right, Dot)
           ELSE LET newIndex == cursorPos + 1
                    segAfter == getSegmentTextAt(after, newIndex, Dot)
                IN  /\ ~(Len(segAfter) > 3)
                    /\ ~(Len(segAfter) > 1 /\ StartsWith(segAfter, "0"))

ipv4_isValidChar(char, currentValue, cursorPos, selectionEnd) ==
  IF char \notin Digits \cup {Dot} THEN FALSE
  ELSE LET left  == Slice(currentValue, 0, cursorPos)
           right == SliceFrom(currentValue, cursorPos)
           after == simulateInsert(currentValue, char, cursorPos, selectionEnd)
       IN  IF char = Dot
           THEN LET b          == getSegmentBounds(currentValue, cursorPos, Dot)
                    currentSeg == Slice(currentValue, b.start, b.end)
                IN  /\ ~(countChar(after, Dot) > 3)
                    /\ ~(Len(left) = 0 \/ EndsWith(left, Dot))
                    /\ ~(Len(currentSeg) = 0)
                    /\ ~StartsWith(right, Dot)
           ELSE LET newIndex == cursorPos + 1
                    segAfter == getSegmentTextAt(after, newIndex, Dot)
                    num      == ParseInt(segAfter)
                IN  /\ ~(Len(segAfter) > 3)
                    /\ ~(Len(segAfter) > 1 /\ StartsWith(segAfter, "0"))
                    /\ ~(num # NaN /\ num > 255)

(***************************************************************************)
(* maskHandlers.ipv6                                                       *)
(***************************************************************************)
RECURSIVE CollapseColons(_)
\* s.replace(/:{3,}/g, '::') : every maximal run of three or more colons
\* becomes two
CollapseColons(s) ==
  IF Len(s) = 0 THEN <<>>
  ELSE IF s[1] # Colon THEN <<s[1]>> \o CollapseColons(Tail(s))
  ELSE LET stops == {k \in 1..Len(s) : k = Len(s) \/ s[k + 1] # Colon}
           run   == CHOOSE k \in stops : \A j \in stops : k <= j
       IN  (IF run >= 3 THEN <<Colon, Colon>> ELSE SubSeq(s, 1, run))
           \o CollapseColons(SliceFrom(s, run))

ipv6_format(v) ==
  LET cleaned == Keep(v, HexChars \cup {Colon})
  IN  CollapseColons(cleaned)

\* ipv6_h letting a hextet run to five digits
ipv6_h_fiveDigits == Rep(Cls(HexChars), 1, 5)

\* [0-9a-fA-F]{1,4}
ipv6_h == Rep(Cls(HexChars), 1, 4)

\* ([0-9a-fA-F]{1,4}:)
ipv6_hc == Cat(<<ipv6_h, Cls({Colon})>>)

\* (:[0-9a-fA-F]{1,4})
ipv6_ch == Cat(<<Cls({Colon}), ipv6_h>>)

ipv6Regex ==
  Alt(<< Cat(<<Rep(ipv6_hc, 7, 7), ipv6_h>>),
         Cat(<<Rep(ipv6_hc, 1, 7), Cls({Colon})>>),
         Cat(<<Rep(ipv6_hc, 1, 6), Cls({Colon}), ipv6_h>>),
         Cat(<<Rep(ipv6_hc, 1, 5), Rep(ipv6_ch, 1, 2)>>),
         Cat(<<Rep(ipv6_hc, 1, 4), Rep(ipv6_ch, 1, 3)>>),
         Cat(<<Rep(ipv6_hc, 1, 3), Rep(ipv6_ch, 1, 4)>>),
         Cat(<<Rep(ipv6_hc, 1, 2), Rep(ipv6_ch, 1, 5)>>),
         Cat(<<ipv6_h, Cls({Colon}), Rep(ipv6_ch, 1, 6)>>),
         Cat(<<Cls({Colon}), Alt(<<Rep(ipv6_ch, 1, 7), Cls({Colon})>>)>>),
         Cat(<<Cls({Colon}), Cls({Colon})>>) >>)

ipv6_validate(v) == TestAnchored(ipv6Regex, v)

\* /:{3,}/.test(s)
HasTripleColon(s) ==
  \E k \in 1..(Len(s) - 2) : s[k] = Colon /\ s[k + 1] = Colon /\ s[k + 2] = Colon

RECURSIVE CountDoubleColon(_)
\* (s.match(/::/g) || []).length : non-overlapping matches, left to right
CountDoubleColon(s) ==
  IF Len(s) < 2 THEN 0
  ELSE IF s[1] = Colon /\ s[2] = Colon THEN 1 + CountDoubleColon(SliceFrom(s, 2))
  ELSE CountDoubleColon(Tail(s))

\* ipv6_isValidChar measuring the hextet at the caret before the insertion
\* instead of the hextet that holds the new character after it
ipv6_isValidChar_segmentBefore(char, currentValue, cursorPos, selectionEnd) ==
  IF char \notin HexChars \cup {Colon} THEN FALSE
  ELSE LET left  == Slice(currentValue, 0, cursorPos)
           right == SliceFrom(currentValue, cursorPos)
           after == simulateInsert(currentValue, char, cursorPos, selectionEnd)
       IN  IF char = Colon
           THEN LET hasDoubleColon  == CountDoubleColon(after) > 0
                    colonCount      == countChar(after, Colon)
                    isFormingDouble == EndsWith(left, Colon) \/ StartsWith(right, Colon)
                    currentSeg      == getSegmentTextAt(currentValue, cursorPos, Colon)
                IN  /\ ~HasTripleColon(after)
                    /\ ~(CountDoubleColon(after) > 1)
                    /\ ~(~hasDoubleColon /\ colonCount > 7)
                    /\ ~(~isFormingDouble /\ Len(currentSeg) = 0)
           ELSE LET segBefore == getSegmentTextAt(currentValue, cursorPos, Colon)
                IN  ~(Len(segBefore) > 4)

ipv6_isValidChar(char, currentValue, cursorPos, selectionEnd) ==
  IF char \notin HexChars \cup {Colon} THEN FALSE
  ELSE LET left  == Slice(currentValue, 0, cursorPos)
           right == SliceFrom(currentValue, cursorPos)
           after == simulateInsert(currentValue, char, cursorPos, selectionEnd)
       IN  IF char = Colon
           THEN LET hasDoubleColon  == CountDoubleColon(after) > 0
                    colonCount      == countChar(after, Colon)
                    isFormingDouble == EndsWith(left, Colon) \/ StartsWith(right, Colon)
                    currentSeg      == getSegmentTextAt(currentValue, cursorPos, Colon)
                IN  /\ ~HasTripleColon(after)
                    /\ ~(CountDoubleColon(after) > 1)
                    /\ ~(~hasDoubleColon /\ colonCount > 7)
                    /\ ~(~isFormingDouble /\ Len(currentSeg) = 0)
           ELSE LET newIndex == cursorPos + 1
                    segAfter == getSegmentTextAt(after, newIndex, Colon)
                IN  ~(Len(segAfter) > 4)

(***************************************************************************)
(* maskHandlers.mac                                                        *)
(***************************************************************************)
RECURSIVE mac_pairs(_)
\* the loop that cuts hexOnly into pairs
mac_pairs(hexOnly) ==
  IF Len(hexOnly) = 0 THEN <<>>
  ELSE <<Slice(hexOnly, 0, 2)>> \o mac_pairs(SliceFrom(hexOnly, 2))

\* mac_format taking the colon-aware path whatever the segments' lengths
mac_format_noLengthTest(v) ==
  LET cleanedAll  == Keep(v, HexChars \cup {Colon})
      hasColon    == \E k \in 1..Len(cleanedAll) : cleanedAll[k] = Colon
      split       == Split(cleanedAll, Colon)
      kept        == SubSeq(split, 1, Min(Len(split), 6))
      rawSegments == [k \in 1..Len(kept) |-> Keep(kept[k], HexChars)]
      normalized  == [k \in 1..Len(rawSegments) |-> Slice(rawSegments[k], 0, 2)]
      hexOnly     == Slice(Keep(v, HexChars), 0, 12)
  IN  IF hasColon
      THEN Join(normalized, Colon)
      ELSE Join(mac_pairs(hexOnly), Colon)

mac_format(v) ==
  LET cleanedAll  == Keep(v, HexChars \cup {Colon})
      hasColon    == \E k \in 1..Len(cleanedAll) : cleanedAll[k] = Colon
      split       == Split(cleanedAll, Colon)
      kept        == SubSeq(split, 1, Min(Len(split), 6))
      rawSegments == [k \in 1..Len(kept) |-> Keep(kept[k], HexChars)]
      normalized  == [k \in 1..Len(rawSegments) |-> Slice(rawSegments[k], 0, 2)]
      hexOnly     == Slice(Keep(v, HexChars), 0, 12)
  IN  IF hasColon /\ \A k \in 1..Len(rawSegments) : Len(rawSegments[k]) <= 2
      THEN Join(normalized, Colon)
      ELSE Join(mac_pairs(hexOnly), Colon)

\* /^([0-9a-fA-F]{2}:){5}[0-9a-fA-F]{2}$/
macRegex ==
  Cat(<< Rep(Cat(<<Rep(Cls(HexChars), 2, 2), Cls({Colon})>>), 5, 5),
         Rep(Cls(HexChars), 2, 2) >>)

mac_validate(v) == TestAnchored(macRegex, v)

mac_isValidChar(char, currentValue, cursorPos, selectionEnd) ==
  IF char \notin HexChars \cup {Colon} THEN FALSE
  ELSE LET left  == Slice(currentValue, 0, cursorPos)
           \* selEnd is selectionEnd: the handler is always passed a number
           right == SliceFrom(currentValue, selectionEnd)
       IN  IF char = Colon
           THEN LET currentSeg == Keep(getSegmentTextAt(currentValue, cursorPos, Colon),
                                       HexChars)
                    totalHex   == Len(Keep(currentValue, HexChars))
                    colonCount == countChar(currentValue, Colon)
                IN  /\ ~(Len(currentSeg) # 2)
                    /\ ~(colonCount >= 5)
                    /\ ~(totalHex >= 12)
                    /\ ~(EndsWith(left, Colon) \/ StartsWith(right, Colon))
           ELSE LET after         == simulateInsert(currentValue, char, cursorPos, selectionEnd)
                    totalHexAfter == Len(Keep(after, HexChars))
                IN  ~(totalHexAfter > 12)

(***************************************************************************)
(* The handler registry: maskHandlers[maskType]                            *)
(***************************************************************************)
format(f, v) ==
  CASE f = "ipv4" -> ipv4_format(v)
    [] f = "ipv6" -> ipv6_format(v)
    [] f = "mac"  -> mac_format(v)

validate(f, v) ==
  CASE f = "ipv4" -> ipv4_validate(v)
    [] f = "ipv6" -> ipv6_validate(v)
    [] f = "mac"  -> mac_validate(v)

isValidChar(f, char, currentValue, cursorPos, selectionEnd) ==
  CASE f = "ipv4" -> ipv4_isValidChar(char, currentValue, cursorPos, selectionEnd)
    [] f = "ipv6" -> ipv6_isValidChar(char, currentValue, cursorPos, selectionEnd)
    [] f = "mac"  -> mac_isValidChar(char, currentValue, cursorPos, selectionEnd)

(***************************************************************************)
(* Bounds of the model                                                     *)
(***************************************************************************)
\* longest field value a keystroke is still typed into
MaxLen == 5

\* longest pasted text
MaxPaste == 2

\* number of characters appended one at a time
MaxTyped == 12

\* nested 'input' dispatches followed before the model cuts the recursion
MaxNest == 3

\* longest argument of a handler function over all the keys of a family
MaxShort == 5

\* longest text whose formatted form a single keystroke is tried on, and
\* longest argument of getSegmentBounds
MaxField == 4

\* longest argument of format over one address character and the delimiter
MaxLong == 13

\* longest argument of ipv4.validate over two digits and the dot
MaxQuad == 8

\* longest argument of ipv6.validate over one hex digit and the colon
MaxHextets == 15

(***************************************************************************)
(* The directive: handleInput, handlePaste, handleKeydown on one field     *)
(***************************************************************************)
Delim(f) == IF f = "ipv4" THEN Dot ELSE Colon

AddressChars(f) == IF f = "ipv4" THEN Digits ELSE HexChars

\* the keys pressed in a field of family f: address characters, both
\* delimiters' worth of punctuation and a character no family accepts
Keys(f) ==
  CASE f = "ipv4" -> {"0", "2", "6", Dot, "g"}
    [] f = "ipv6" -> {"a", "2", Colon, "g"}
    [] f = "mac"  -> {"a", "2", Colon, "g"}

\* the characters appended one at a time at the end of the value
AppendChars(f) ==
  CASE f = "ipv4" -> {"2", "6"}
    [] f = "ipv6" -> {"a", Colon}
    [] f = "mac"  -> {"a", "2"}

RECURSIVE Strings(_, _)
\* every string over alphabet A of length at most n
Strings(A, n) ==
  IF n = 0 THEN {<<>>}
  ELSE LET S == Strings(A, n - 1)
       IN  S \cup {Append(x, c) : x \in {y \in S : Len(y) = n - 1}, c \in A}

PasteTexts(f) == Strings(Keys(f), MaxPaste)

\* the contents an 'input' event finds in the field
InputTexts(f) == Strings(Keys(f), MaxPaste)

RECURSIVE handleInput_alwaysDispatch(_, _, _, _)
\* handleInput without its test oldValue !== newValue: every run writes the
\* value back and dispatches 'input'
handleInput_alwaysDispatch(f, oldValue, cursorPosition, depth) ==
  LET newValue == format(f, oldValue)
      nested == IF depth >= MaxNest
                THEN [value |-> newValue, caret |-> Len(newValue), runs |-> 0]
                ELSE handleInput_alwaysDispatch(f, newValue, Len(newValue), depth + 1)
      newCursorPos == computeNewCursorPosition(oldValue, newValue, cursorPosition)
  IN  [value |-> nested.value,
       caret |-> Min(newCursorPos, Len(nested.value)),
       runs  |-> 1 + nested.runs]

RECURSIVE handleInput(_, _, _, _)
\* One run of the 'input' listener on a field holding oldValue with the
\* caret at cursorPosition, the listener runs that its own dispatchEvent
\* starts synchronously included.  Assigning input.value puts the caret at
\* the end of the new value, which is where a nested run reads it.
handleInput(f, oldValue, cursorPosition, depth) ==
  LET newValue == format(f, oldValue)
  IN  IF oldValue = newValue
      THEN [value |-> oldValue, caret |-> cursorPosition, runs |-> 1]
      ELSE LET nested == IF depth >= MaxNest
                         THEN [value |-> newValue, caret |-> Len(newValue), runs |-> 0]
                         ELSE handleInput(f, newValue, Len(newValue), depth + 1)
               newCursorPos == computeNewCursorPosition(oldValue, newValue, cursorPosition)
           IN  [value |-> nested.value,
                caret |-> Min(newCursorPos, Len(nested.value)),
                runs  |-> 1 + nested.runs]

FieldInit ==
  /\ family \in Families
  /\ value = <<>>
  /\ selStart = 0
  /\ selEnd = 0
  /\ lastEvent = "none"
  /\ runs = 0
  /\ typed = <<>>

FnIdle ==
  /\ fn = "none"
  /\ raw = <<>>
  /\ idx = 0
  /\ called = FALSE
  /\ out = <<>>

Init == FieldInit /\ FnIdle

\* keydown of a printable key with the selection at (s, e): handleKeydown,
\* then, unless it called preventDefault, the browser's insertion of the
\* character over the selection and the 'input' event that follows it.
KeydownField(key, s, e) ==
  IF ~isValidChar(family, key, value, s, e)
  THEN /\ lastEvent' = "rejected"
       /\ UNCHANGED <<value, selStart, selEnd, runs>>
  ELSE LET r == handleInput(family, simulateInsert(value, key, s, e), s + 1, 0)
       IN  /\ lastEvent' = "typed"
           /\ value' = r.value
           /\ selStart' = r.caret
           /\ selEnd' = r.caret
           /\ runs' = r.runs

Keydown(key, s, e) ==
  /\ Len(value) < MaxLen
  /\ KeydownField(key, s, e)
  /\ UNCHANGED <<family, typed, fnVars>>

\* paste of text: handlePaste and the 'input' event it dispatches.  The
\* handler overwrites the whole value, so what a paste leaves does not depend
\* on what the field held: the model pastes into the empty field only.
Paste(text) ==
  /\ value = <<>>
  /\ \E formatted \in {format(family, text)} :
     \E r \in {handleInput(family, formatted, Len(formatted), 0)} :
         /\ value' = r.value
         /\ selStart' = r.caret
         /\ selEnd' = r.caret
         /\ runs' = r.runs
  /\ lastEvent' = "pasted"
  /\ UNCHANGED <<family, typed, fnVars>>

\* an 'input' event after the browser put text in the field by a way that
\* raises neither keydown nor paste (drop, cut, autofill), the caret left at
\* c: handleInput alone.  What it leaves depends on text and c only, so the
\* model starts it from the empty field.
Input(text, c) ==
  /\ value = <<>>
  /\ \E r \in {handleInput(family, text, c, 0)} :
         /\ value' = r.value
         /\ selStart' = r.caret
         /\ selEnd' = r.caret
         /\ runs' = r.runs
  /\ lastEvent' = "input"
  /\ UNCHANGED <<family, typed, fnVars>>

Next ==
  \/ \E key \in Keys(family) : \E s \in 0..Len(value) : \E e \in s..Len(value) :
       Keydown(key, s, e)
  \/ \E text \in PasteTexts(family) : Paste(text)
  \/ \E text \in InputTexts(family) : \E c \in 0..Len(text) : Input(text, c)

Spec == Init /\ [][Next]_vars

\* an 'input' event after ch was entered at the end of the value by a way
\* that raises no keydown: handleInput alone
InputAppend(ch) ==
  /\ Len(typed) < MaxTyped
  /\ LET r == handleInput(family, Append(value, ch), Len(value) + 1, 0)
     IN  /\ value' = r.value
         /\ selStart' = r.caret
         /\ selEnd' = r.caret
         /\ runs' = r.runs
  /\ typed' = Append(typed, ch)
  /\ UNCHANGED <<family, lastEvent, fnVars>>

NextKeys ==
  \E key \in Keys(family) : \E s \in 0..Len(value) : \E e \in s..Len(value) :
    Keydown(key, s, e)

\* the field under keystrokes alone
SpecKeys == Init /\ [][NextKeys]_vars

NextAppend == \E ch \in AppendChars(family) : InputAppend(ch)

SpecAppend == Init /\ [][NextAppend]_vars

(***************************************************************************)
(* The handler functions called on their own                               *)
(***************************************************************************)
Functions == {"format", "validate", "getSegmentBounds"}

\* an address character of family f
Addr(f) == IF f = "ipv4" THEN "2" ELSE "a"

\* the long arguments of function g of family f: few characters, many segments
LongArgs(g, f) ==
  CASE g = "format" -> Strings({Addr(f), Delim(f)}, MaxLong)
    [] g = "validate" /\ f = "ipv4" -> Strings({"0", "2", Dot}, MaxQuad)
    [] g = "validate" /\ f = "ipv6" -> Strings({"a", Colon}, MaxHextets)
    [] OTHER -> {}

Args(g, f) ==
  IF g = "getSegmentBounds" THEN Strings(Keys(f), MaxField)
  ELSE Strings(Keys(f), MaxShort) \cup LongArgs(g, f)

InitFn ==
  /\ family \in Families
  /\ fn \in Functions
  /\ raw \in Args(fn, family)
  /\ value = <<>>
  /\ selStart = 0
  /\ selEnd = 0
  /\ lastEvent = "none"
  /\ runs = 0
  /\ typed = <<>>
  /\ idx = 0
  /\ called = FALSE
  /\ out = <<>>

CallFormat ==
  /\ fn = "format" /\ ~called
  /\ out' = format(family, raw)
  /\ called' = TRUE
  /\ UNCHANGED <<family, fieldVars, fn, raw, idx>>

CallValidate ==
  /\ fn = "validate" /\ ~called
  /\ out' = validate(family, raw)
  /\ called' = TRUE
  /\ UNCHANGED <<family, fieldVars, fn, raw, idx>>

CallGetSegmentBounds(index) ==
  /\ fn = "getSegmentBounds" /\ ~called
  /\ idx' = index
  /\ out' = getSegmentBounds(raw, index, Delim(family))
  /\ called' = TRUE
  /\ UNCHANGED <<family, fieldVars, fn, raw>>

NextFn ==
  \/ CallFormat
  \/ CallValidate
  \/ \E index \in 0..Len(raw) : CallGetSegmentBounds(index)

SpecFn == InitFn /\ [][NextFn]_vars

(***************************************************************************)
(* One keystroke in a field that holds a formatted value                   *)
(***************************************************************************)
\* the values format can leave in a field of family f: the results of format
\* on short texts, and on the long ones where format has a rule about length
Formatted(f) ==
  {format(f, x) : x \in Strings(Keys(f), MaxField)
                       \cup (IF f = "ipv6" THEN {} ELSE LongArgs("format", f))}

InitStroke ==
  /\ family \in Families
  /\ fn = "keydown"
  /\ raw \in Formatted(family)
  /\ value = raw
  /\ selStart = Len(raw)
  /\ selEnd = Len(raw)
  /\ lastEvent = "none"
  /\ runs = 0
  /\ typed = <<>>
  /\ idx = 0
  /\ called = FALSE
  /\ out = <<>>

\* one key pressed with the caret at index of the value raw
CallKeydown(key, index) ==
  /\ fn = "keydown" /\ ~called
  /\ KeydownField(key, index, index)
  /\ idx' = index
  /\ typed' = <<key>>
  /\ called' = TRUE
  /\ UNCHANGED <<family, fn, raw, out>>

NextStroke ==
  \E key \in Keys(family) : \E index \in 0..Len(raw) : CallKeydown(key, index)

SpecStroke == InitStroke /\ [][NextStroke]_vars

(***************************************************************************)
(* isValidChar called on a formatted value with a selection                *)
(***************************************************************************)
InitSelect ==
  /\ family \in Families
  /\ fn = "isValidChar"
  /\ raw \in Formatted(family)
  /\ value = raw
  /\ selStart = Len(raw)
  /\ selEnd = Len(raw)
  /\ lastEvent = "none"
  /\ runs = 0
  /\ typed = <<>>
  /\ idx = 0
  /\ called = FALSE
  /\ out = <<>>

\* handler.isValidChar(e.key, currentValue, selectionStart, selectionEnd) on
\* the value raw with the selection at (s, e)
CallIsValidChar(key, s, e) ==
  /\ fn = "isValidChar" /\ ~called
  /\ selStart' = s
  /\ selEnd' = e
  /\ typed' = <<key>>
  /\ out' = isValidChar(family, key, raw, s, e)
  /\ called' = TRUE
  /\ UNCHANGED <<family, value, lastEvent, runs, fn, raw, idx>>

NextSelect ==
  \E key \in Keys(family) : \E s \in 0..Len(raw) : \E e \in s..Len(raw) :
    CallIsValidChar(key, s, e)

SpecSelect == InitSelect /\ [][NextSelect]_vars

(***************************************************************************)
(* Properties                                                              *)
(***************************************************************************)
Segments(f, v) == Split(v, Delim(f))

\* C1: format is idempotent for each of the three families: formatting the
\* result of format again gives the same string.
FormatIdempotent ==
  (fn = "format" /\ called) => format(family, out) = out

\* format rewrote its argument: a segment above 255 was replaced and a dot
\* appended after it
FormatIdempotentWitness ==
  /\ fn = "format" /\ called
  /\ family = "ipv4"
  /\ raw = <<"2", "6", "2", "g", "6">>
  /\ out = <<"2", "5", "5", Dot>>

\* C2: digits typed one at a time at the end of an empty IPv4 field, format
\* applied after each, never leave a segment above 255, a segment longer
\* than 3 digits, or more than 3 dots.
TypedDigitsStayInRange ==
  family = "ipv4" =>
    /\ countChar(value, Dot) <= 3
    /\ \A k \in 1..Len(Segments("ipv4", value)) :
         LET seg == Segments("ipv4", value)[k]
         IN  Len(seg) <= 3 /\ ParseInt(seg) <= 255

\* the fourth segment was typed as 262 and holds 255, with no fourth dot
TypedDigitsStayInRangeWitness ==
  /\ family = "ipv4"
  /\ typed = <<"2", "6", "2", "6", "2", "6", "2", "6", "2">>
  /\ value = <<"2", "6", Dot, "2", "6", Dot, "2", "6", Dot, "2", "5", "5">>

\* the six pairs of twelve characters t, joined by colons
SixPairs(t) ==
  << t[1], t[2], Colon, t[3], t[4], Colon, t[5], t[6], Colon,
     t[7], t[8], Colon, t[9], t[10], Colon, t[11], t[12] >>

\* C3: twelve hex characters typed one at a time at the end of an empty MAC
\* field, format applied after each, leave the six pairs joined by ':', and
\* mac.validate accepts that value.
TwelveHexTypedGiveMac ==
  (family = "mac" /\ Len(typed) = 12) =>
    /\ value = SixPairs(typed)
    /\ mac_validate(value)

TwelveHexTypedGiveMacWitness ==
  /\ family = "mac"
  /\ typed = <<"a", "2", "2", "a", "a", "a", "2", "2", "a", "2", "a", "2">>
  /\ Len(value) = 17
  /\ mac_validate(value)

\* a decimal number 0..255 written without a leading zero
IsOctet(seg) ==
  /\ Len(seg) \in 1..3
  /\ \A k \in 1..Len(seg) : seg[k] \in Digits
  /\ ~(Len(seg) > 1 /\ seg[1] = "0")
  /\ DecimalValue(seg) <= 255

IsDottedQuad(v) ==
  LET segs == Split(v, Dot)
  IN  Len(segs) = 4 /\ \A k \in 1..4 : IsOctet(segs[k])

\* C4: ipv4.validate(v) is true exactly when v is four segments separated
\* by three dots, each a decimal number 0..255 with no multi-digit segment
\* that begins with '0'.
ValidateIsDottedQuad ==
  (fn = "validate" /\ called /\ family = "ipv4") => (out <=> IsDottedQuad(raw))

\* s is one or more hextets of 1-4 hex digits separated by single colons
IsHextetList(s) ==
  LET segs == Split(s, Colon)
  IN  \A k \in 1..Len(segs) :
        Len(segs[k]) \in 1..4 /\ \A j \in 1..Len(segs[k]) : segs[k][j] \in HexChars

HextetCount(s) == IF s = <<>> THEN 0 ELSE Len(Split(s, Colon))

IsIPv6Text(v) ==
  \/ IsHextetList(v) /\ HextetCount(v) = 8
  \/ \E k \in 1..(Len(v) - 1) :
       LET a == SubSeq(v, 1, k - 1)
           b == SubSeq(v, k + 2, Len(v))
       IN  /\ v[k] = Colon /\ v[k + 1] = Colon
           /\ a = <<>> \/ IsHextetList(a)
           /\ b = <<>> \/ IsHextetList(b)
           /\ HextetCount(a) + HextetCount(b) <= 7

\* C5: ipv6.validate(v) is true exactly when v is 8 hextets of 1-4 hex
\* digits separated by single colons, or holds one '::' with at most 7
\* hextets on its two sides together; it is false for every other string,
\* the empty string, ':::' and ':' among them.
ValidateIsIPv6Text ==
  (fn = "validate" /\ called /\ family = "ipv6") => (out <=> IsIPv6Text(raw))

\* seven hextets and a closing '::' are accepted
ValidateIsIPv6TextWitness ==
  /\ fn = "validate" /\ called /\ family = "ipv6"
  /\ raw = <<"a", Colon, "a", Colon, "a", Colon, "a", Colon,
             "a", Colon, "a", Colon, "a", Colon, Colon>>
  /\ out = TRUE

HasLeadingZero(seg) == Len(seg) > 1 /\ seg[1] = "0"

\* C6: after any keystrokes accepted by ipv4.isValidChar, each followed by
\* ipv4.format, in a field that starts empty, no segment of the value has
\* more than one digit and begins with '0'.
NoLeadingZeroSegment ==
  family = "ipv4" =>
    \A k \in 1..Len(Segments("ipv4", value)) :
      ~HasLeadingZero(Segments("ipv4", value)[k])

\* C7: after any keystrokes accepted by ipv6.isValidChar, each followed by
\* ipv6.format, in a field that starts empty, every colon-delimited segment
\* of the value has at most 4 characters.
HextetsAtMostFour ==
  family = "ipv6" =>
    \A k \in 1..Len(Segments("ipv6", value)) : Len(Segments("ipv6", value)[k]) <= 4

\* a key was refused in a field that holds a full hextet
HextetsAtMostFourWitness ==
  /\ family = "ipv6"
  /\ lastEvent = "rejected"
  /\ value = <<"a", "2", "a", "a">>

\* what C8 asks of the value w left by key c accepted at caret p of v
KeystrokeKept(f, v, c, p, w) ==
  /\ Keep(w, AddressChars(f)) = Keep(simulateInsert(v, c, p, p), AddressChars(f))
  /\ \E k \in 1..Len(w) : w[k] = c
  /\ format(f, w) = w

\* C8: when v is a fixed point of format and isValidChar accepts c at caret
\* p of v, formatting v with c inserted at p keeps c and every address
\* character of v in order, and gives a fixed point of format again.
AcceptedKeystrokeKept ==
  (fn = "keydown" /\ called /\ lastEvent = "typed" /\ format(family, raw) = raw)
    => KeystrokeKept(family, raw, typed[1], idx, value)

\* a hex digit accepted inside the first pair made format move the colons
AcceptedKeystrokeKeptWitness ==
  /\ fn = "keydown" /\ called /\ lastEvent = "typed"
  /\ family = "mac"
  /\ raw = <<"a", "a", Colon, "a", "a">>
  /\ typed = <<"2">>
  /\ idx = 1
  /\ value = <<"a", "2", Colon, "a", "a", Colon, "a">>

\* C9: getSegmentBounds(value, index, delimiter) returns bounds with
\* 0 <= start <= index <= end <= value.length for every index in
\* 0..value.length.
SegmentBoundsEncloseIndex ==
  (fn = "getSegmentBounds" /\ called) =>
    /\ 0 <= out.start
    /\ out.start <= idx
    /\ idx <= out.end
    /\ out.end <= Len(raw)

RECURSIVE IsSubsequence(_, _)
\* the characters of a occur in b, in a's order
IsSubsequence(a, b) ==
  IF Len(a) = 0 THEN TRUE
  ELSE IF Len(b) = 0 THEN FALSE
  ELSE IF a[1] = b[1] THEN IsSubsequence(Tail(a), Tail(b))
  ELSE IsSubsequence(a, Tail(b))

NonDelimiters(f, v) == SelectSeq(v, LAMBDA c : c # Delim(f))

\* C10 as stated: for every family and input x, the non-delimiter
\* characters of format(x) are a subsequence of the characters of x.
FormatOnlyFilters ==
  (fn = "format" /\ called) => IsSubsequence(NonDelimiters(family, out), raw)

\* some segment of x, cut to its first three digits, is a number above 255
HasSegmentAbove255(x) ==
  LET segs == Split(Keep(x, Digits \cup {Dot}), Dot)
  IN  \E k \in 1..Len(segs) : ParseInt(Slice(segs[k], 0, 3)) > 255

\* C10 amended: the non-delimiter characters of format(x) are a subsequence
\* of the characters of x for ipv6 and mac, and for ipv4 whenever no segment
\* of x begins with three digits that make a number above 255.
FormatOnlyFiltersUnlessClamped ==
  (fn = "format" /\ called /\ ~(family = "ipv4" /\ HasSegmentAbove255(raw)))
    => IsSubsequence(NonDelimiters(family, out), raw)

\* a fourth digit was cut off an IPv4 segment and a dot inserted
FormatOnlyFiltersUnlessClampedWitness ==
  /\ fn = "format" /\ called
  /\ family = "ipv4"
  /\ raw = <<"2", "2", "2", "6", "g">>
  /\ out = <<"2", "2", "2", Dot>>

\* how many address characters of family f stand left of offset c in v
AddressCharsBefore(f, v, c) == Len(Keep(Slice(v, 0, c), AddressChars(f)))

\* the field content handleInput found after the key typed[1] went in at idx
ValueBeforeFormat == simulateInsert(raw, typed[1], idx, idx)

\* C11: when format(v) differs from v only by delimiters or invalid
\* characters, the caret computeNewCursorPosition(v, format(v), c) gives has
\* as many address characters to its left in format(v) as c has in v.
CaretStaysAnchored ==
  (/\ fn = "keydown" /\ called /\ lastEvent = "typed"
   /\ Keep(value, AddressChars(family)) = Keep(ValueBeforeFormat, AddressChars(family)))
    => AddressCharsBefore(family, value,
                          computeNewCursorPosition(ValueBeforeFormat, value, idx + 1))
         = AddressCharsBefore(family, ValueBeforeFormat, idx + 1)

\* v has no empty segment that a dot could have made: it does not begin
\* with a dot, holds no two adjacent dots and at most 3 dots
DotsWellPlaced(v) ==
  /\ ~StartsWith(v, Dot)
  /\ \A k \in 1..(Len(v) - 1) : ~(v[k] = Dot /\ v[k + 1] = Dot)
  /\ countChar(v, Dot) <= 3

\* C12: for every fixed point v of ipv4.format and every selection
\* (start, end) in v, if ipv4.isValidChar('.', v, start, end) is true then v
\* with the selection replaced by '.' does not begin with '.', has no two
\* adjacent dots and has at most 3 dots.
AcceptedDotMakesNoEmptySegment ==
  (/\ fn = "isValidChar" /\ called
   /\ family = "ipv4" /\ typed = <<Dot>> /\ out = TRUE)
    => DotsWellPlaced(simulateInsert(raw, Dot, selStart, selEnd))

\* C13: in a MAC field that starts empty, after any sequence of accepted
\* keystrokes, each followed by mac.format, the value has at most 6
\* colon-separated segments and at most 12 hex digits, and every segment
\* except the last consists of exactly 2 hex digits.
MacKeepsPairs ==
  family = "mac" =>
    LET segs == Segments("mac", value)
    IN  /\ Len(segs) <= 6
        /\ Len(Keep(value, HexChars)) <= 12
        /\ \A k \in 1..(Len(segs) - 1) :
             Len(segs[k]) = 2 /\ \A j \in 1..2 : isHexChar(segs[k][j])

\* C14: the input-event feedback loop terminates: for every field content
\* and every family, a keystroke or any other 'input' event causes at most
\* one nested handleInput run after the first, a paste causes the single
\* handleInput run that handlePaste dispatches, and each of them leaves the
\* field holding a fixed point of format.
FeedbackLoopSettles ==
  /\ format(family, value) = value
  /\ lastEvent \in {"typed", "input"} => runs <= 2
  /\ lastEvent = "pasted" => runs <= 1

\* the third digit of an IPv4 segment made format add a dot, and the nested
\* run found nothing more to change
FeedbackLoopSettlesWitness ==
  /\ family = "ipv4"
  /\ lastEvent = "typed"
  /\ value = <<"2", "2", "2", Dot>>
  /\ runs = 2

(***************************************************************************)
(* A complete address typed into an empty field                            *)
(***************************************************************************)
\* the complete addresses of family f: the strings validate accepts, for
\* IPv4 those written without leading zeros
Addresses(f) ==
  CASE f = "ipv4" ->
         {w \in Strings({"0", "2", Dot}, MaxQuad) :
            /\ ipv4_validate(w)
            /\ \A k \in 1..Len(Split(w, Dot)) : ~HasLeadingZero(Split(w, Dot)[k])}
    [] f = "ipv6" -> {w \in Strings({"a", Colon}, MaxHextets) : ipv6_validate(w)}
    [] f = "mac"  ->
         {SixPairs(t) : t \in {x \in Strings({"a", "2"}, MaxTyped) : Len(x) = 12}}

InitType ==
  /\ family \in Families
  /\ fn = "type"
  /\ raw \in Addresses(family)
  /\ value = <<>>
  /\ selStart = 0
  /\ selEnd = 0
  /\ lastEvent = "none"
  /\ runs = 0
  /\ typed = <<>>
  /\ idx = 0
  /\ called = FALSE
  /\ out = <<>>

\* the next character of the address raw pressed with the caret at the end
TypeNextKey ==
  /\ fn = "type"
  /\ Len(typed) < Len(raw)
  /\ KeydownField(raw[Len(typed) + 1], Len(value), Len(value))
  /\ typed' = Append(typed, raw[Len(typed) + 1])
  /\ UNCHANGED <<family, fnVars>>

NextType == TypeNextKey

SpecType == InitType /\ [][NextType]_vars

\* C15: for each family, every string its validate accepts (for IPv4,
\* written without leading zeros) is what an initially empty field holds
\* after its characters were typed left to right with the caret at the end,
\* rejected keystrokes dropped and format applied after each accepted one;
\* this includes the IPv6 forms that begin with '::'.
EveryAddressTypeable ==
  (fn = "type" /\ typed = raw) => value = raw

====
